---- MODULE Spec2Model ----
(***************************************************************************)
(* Model of src/js/script.js: the FormValidator class (rule registry,      *)
(* full-form and single-field evaluation, feedback rendering) and the      *)
(* registration form wired to it (rule set, real-time listeners, submit    *)
(* listener, activity and payment listeners).                              *)
(*                                                                         *)
(* A JavaScript string is a sequence of one-character strings, so that     *)
(* length, indexOf and the regular expressions are computed on the value.  *)
(* Every event handler runs to completion (single-threaded JavaScript), so *)
(* each handler is one action.                                             *)
(***************************************************************************)
EXTENDS Integers, Sequences, FiniteSets, TLC

(***************************************************************************)
(* Strings                                                                 *)
(***************************************************************************)

Digits == {"0", "1", "2", "3", "4", "5", "6", "7", "8", "9"}

Letters == {"A", "a", "b", "c", "l", "m", "n", "o", "e"}

WhiteSpace == {" "}

\* String.prototype.indexOf(c): 0-based index of the first c, -1 when absent.
IndexOf(s, c) ==
  IF \E i \in 1..Len(s) : s[i] = c
  THEN (CHOOSE i \in 1..Len(s) : s[i] = c /\ \A j \in 1..(i - 1) : s[j] # c) - 1
  ELSE -1

\* String.prototype.lastIndexOf(c): 0-based index of the last c, -1 when absent.
LastIndexOf(s, c) ==
  IF \E i \in 1..Len(s) : s[i] = c
  THEN (CHOOSE i \in 1..Len(s) : s[i] = c /\ \A j \in (i + 1)..Len(s) : s[j] # c) - 1
  ELSE -1

\* /^[a-zA-Z\-.'\s]+$/.test(s)
NamePattern(s) ==
  /\ Len(s) >= 1
  /\ \A i \in 1..Len(s) : s[i] \in Letters \cup {"-", ".", "'"} \cup WhiteSpace

\* /^[^@]+@[^@.]+\.[a-z]+$/i.test(s)
EmailPattern(s) ==
  \E i \in 1..Len(s) : \E j \in (i + 1)..Len(s) :
    /\ s[i] = "@"
    /\ s[j] = "."
    /\ i >= 2
    /\ \A k \in 1..(i - 1) : s[k] # "@"
    /\ j >= i + 2
    /\ \A k \in (i + 1)..(j - 1) : s[k] \notin {"@", "."}
    /\ Len(s) >= j + 1
    /\ \A k \in (j + 1)..Len(s) : s[k] \in Letters

\* /^\d{13,16}$/.test(s)
CcNumPattern(s) ==
  /\ Len(s) \in 13..16
  /\ \A i \in 1..Len(s) : s[i] \in Digits

\* The white space Number() strips from both ends of a string.
RECURSIVE TrimStart(_)
TrimStart(s) ==
  IF s # <<>> /\ Head(s) \in WhiteSpace THEN TrimStart(Tail(s)) ELSE s

RECURSIVE TrimEnd(_)
TrimEnd(s) ==
  IF s # <<>> /\ s[Len(s)] \in WhiteSpace
  THEN TrimEnd(SubSeq(s, 1, Len(s) - 1))
  ELSE s

\* One step of the recogniser of StrDecimalLiteral (ECMAScript StringToNumber):
\* sign? (digits ('.' digits?)? | '.' digits) ([eE] sign? digits)?
NumStep(q, ch) ==
  CASE q = "start" /\ ch \in {"+", "-"} -> "sign"
    [] q \in {"start", "sign"} /\ ch \in Digits -> "int"
    [] q \in {"start", "sign"} /\ ch = "." -> "dot"
    [] q = "int" /\ ch \in Digits -> "int"
    [] q = "int" /\ ch = "." -> "frac"
    [] q \in {"dot", "frac"} /\ ch \in Digits -> "frac"
    [] q \in {"int", "frac"} /\ ch \in {"e", "E"} -> "exp"
    [] q = "exp" /\ ch \in {"+", "-"} -> "expsign"
    [] q \in {"exp", "expsign", "expint"} /\ ch \in Digits -> "expint"
    [] OTHER -> "dead"

RECURSIVE NumRun(_, _)
NumRun(q, s) ==
  IF s = <<>> THEN q ELSE NumRun(NumStep(q, Head(s)), Tail(s))

\* isNaN(s) for a string s: Number(s) is NaN unless s, trimmed, is empty (0)
\* or a decimal literal.  (Infinity and the 0x/0o/0b forms need letters the
\* values of this model never contain.)
IsNaN(s) ==
  LET t == TrimEnd(TrimStart(s))
  IN  /\ t # <<>>
      /\ NumRun("start", t) \notin {"int", "frac", "expint"}

(***************************************************************************)
(* The registration form                                                   *)
(***************************************************************************)

\* The text inputs the rule set reads through field.value.
InputIds == {"name", "email", "cc-num", "zip", "cvv"}

\* The form controls a Validator is registered for, in registration order.
RegisteredIds == <<"name", "email", "activities", "cc-num", "zip", "cvv">>

\* The fields with 'input' and 'blur' listeners.
RealTimeIds == {"name", "email"}

\* Form controls with an id and no Validator.
UnregisteredIds == {"title"}

FieldIds == {RegisteredIds[i] : i \in 1..Len(RegisteredIds)}

AllIds == FieldIds \cup UnregisteredIds

\* The ids validateField is called with outside the real-time listeners: a
\* field with an unconditional rule, a field whose rules carry a condition
\* (zip and cvv have the shape of cc-num), and an id without validator.
DirectCallIds == {"activities", "cc-num"} \cup UnregisteredIds

\* What a user types into each text input.
InputValues(id) ==
  CASE id = "name" ->
         { <<>>, <<"A", "l">>, <<"A", "n", "n">> }
    [] id = "email" ->
         { <<>>,
           <<"a", ".", "b", "@", "@", "c", ".", "c", "o", "m">>,
           <<"a", "@", "b", ".", "c">> }
    [] id = "cc-num" ->
         { <<>>,
           <<"4", "1", "1", "1", "1", "1", "1", "1", "1", "1", "1", "1", "1">> }
    [] id = "zip" ->
         { <<>>, <<"1", "2", "3", "4", "5">> }
    [] id = "cvv" ->
         { <<>>, <<"1", "2", "3">> }

\* The options of the payment <select>.
PaymentTypes == {"credit-card", "paypal", "bitcoin"}

\* The activity checkboxes (#activities-box input) with their
\* data-day-and-time and data-cost attributes.  The script reads them from
\* the markup; these three stand for it: two in one slot, one in another.
Activities == {"js-libs", "node", "build-tools"}

DayAndTime ==
  [ a \in Activities |->
      IF a \in {"js-libs", "node"} THEN "tuesday-9am" ELSE "tuesday-1pm" ]

Cost == [ a \in Activities |-> IF a = "build-tools" THEN 200 ELSE 100 ]

\* document.title when the FormValidator is constructed.
OriginalPageTitle == "Conference Registration"

\* How many user events (input, blur, edit, change, submit, validateField
\* call) a behaviour holds.
MaxEvents == 5

VARIABLES
  validators,     \* this.validators
  errors,         \* this.errors
  elements,       \* per id, the control this.form.elements[id] and
                  \* document.getElementById(id) give now
  value,          \* .value of each text input
  payment,        \* document.getElementById('payment').value
  checked,        \* the checked activity checkboxes
  disabled,       \* the disabled activity checkboxes
  totalCost,      \* totalCost of addRegFormEventListeners
  costText,       \* the number shown in #activities-cost
  display,        \* style.display of the payment detail sections
  title,          \* document.title
  errorSummary,   \* the #errorSummary panels in the form
  hints,          \* per field id, the messages of its .<id>-hint elements
  errorClass,     \* per field id, class 'error' on the element
  validClass,     \* per field id, class 'valid' on the element's container
  notValidClass,  \* per field id, class 'not-valid' on the container
  reloading,      \* location.reload() was called
  lastOp,         \* the handler that ran last
  calls,          \* condition/method invocations of the last pass, in order
  shown,          \* showHint calls of the last validateField pass, in order
  ret,            \* what the last validateForm returned
  warned,         \* the last validateField logged console.warn
  threw,          \* the last call raised a TypeError
  events          \* the user events so far

vars ==
  << validators, errors, elements, value, payment, checked, disabled, totalCost,
     costText, display, title, errorSummary, hints, errorClass, validClass,
     notValidClass, reloading, lastOp, calls, shown, ret, warned, threw, events >>

formVars ==
  << elements, value, payment, checked, disabled, totalCost, costText, display >>

feedbackVars == << hints, errorClass, validClass, notValidClass >>

summaryVars == << title, errorSummary >>

(***************************************************************************)
(* The rule set (addRegFormValidationRules)                                *)
(***************************************************************************)

Rule(id, hasCondition, message) ==
  [id |-> id, hasCondition |-> hasCondition, message |-> message]

NameRules ==
  << Rule("name-required", FALSE, "Name is required"),
     Rule("name-min", FALSE, "Name must be at least 3 characters long"),
     Rule("name-pattern", FALSE,
          "Name should only contain letters, spaces, hyphens, periods, and apostrophes") >>

EmailRules ==
  << Rule("email-required", FALSE, "Email is required"),
     Rule("email-at", FALSE, "Enter the 'at' symbol in the email address."),
     Rule("email-at-first", FALSE, "The 'at' symbol should not appear at the beginning."),
     Rule("email-dot", FALSE, "Enter the 'dot' symbol in the email address."),
     Rule("email-at-before-dot", FALSE, "The 'at' symbol must be before the 'dot' symbol."),
     Rule("email-at-once", FALSE, "The 'at' symbol should only appear once."),
     Rule("email-pattern", FALSE, "Email address must be formatted correctly") >>

ActivitiesRules ==
  << Rule("activities-required", FALSE, "Choose at least one activity") >>

CcNumRules ==
  << Rule("cc-num-required", TRUE, "Credit card number is required"),
     Rule("cc-num-number", TRUE, "Credit card number must be a number"),
     Rule("cc-num-pattern", TRUE, "Credit card number must be between 13 - 16 digits") >>

ZipRules ==
  << Rule("zip-required", TRUE, "Zip code is required"),
     Rule("zip-number", TRUE, "Zip code must be a number"),
     Rule("zip-length", TRUE, "Zip code must be 5 digits") >>

CvvRules ==
  << Rule("cvv-required", TRUE, "CVV is required"),
     Rule("cvv-number", TRUE, "CVV must be a number"),
     Rule("cvv-length", TRUE, "CVV must be 3 digits") >>

\* The addValidator calls of addRegFormValidationRules, in order.
Registrations ==
  << [fieldId |-> "name", rules |-> NameRules],
     [fieldId |-> "email", rules |-> EmailRules],
     [fieldId |-> "activities", rules |-> ActivitiesRules],
     [fieldId |-> "cc-num", rules |-> CcNumRules],
     [fieldId |-> "zip", rules |-> ZipRules],
     [fieldId |-> "cvv", rules |-> CvvRules] >>

\* What conditions and methods read from the page.
FormState == [value |-> value, payment |-> payment, checked |-> checked]

\* rule.condition(): every condition of the rule set is the same test.
Condition(rule, fs) == fs.payment = "credit-card"

\* rule.method(field): field is the element the Validator holds.
Method(rule, field, fs) ==
  CASE rule.id \in {"name-required", "email-required", "cc-num-required",
                    "zip-required", "cvv-required"} -> Len(fs.value[field]) > 0
    [] rule.id = "name-min" -> Len(fs.value[field]) >= 3
    [] rule.id = "name-pattern" -> NamePattern(fs.value[field])
    [] rule.id = "email-at" -> IndexOf(fs.value[field], "@") > -1
    [] rule.id = "email-at-first" -> IndexOf(fs.value[field], "@") # 0
    [] rule.id = "email-dot" -> IndexOf(fs.value[field], ".") > -1
    [] rule.id = "email-at-before-dot" ->
         IndexOf(fs.value[field], "@") < IndexOf(fs.value[field], ".")
    [] rule.id = "email-at-once" ->
         IndexOf(fs.value[field], "@") = LastIndexOf(fs.value[field], "@")
    [] rule.id = "email-pattern" -> EmailPattern(fs.value[field])
    [] rule.id = "activities-required" -> Cardinality(fs.checked) > 0
    [] rule.id \in {"cc-num-number", "zip-number", "cvv-number"} ->
         ~IsNaN(fs.value[field])
    [] rule.id = "cc-num-pattern" -> CcNumPattern(fs.value[field])
    [] rule.id = "zip-length" -> Len(fs.value[field]) = 5
    [] rule.id = "cvv-length" -> Len(fs.value[field]) = 3

(***************************************************************************)
(* FormValidator: feedback rendering                                       *)
(***************************************************************************)

\* The feedback a pass reads and writes.  Classes 'valid' and 'not-valid'
\* sit on the element's container (the parent <label> of an <input>, the
\* <fieldset> itself), class 'error' on the element; both are keyed by the
\* element, and so are the hints appended to the container.
Feedback ==
  [hints |-> hints, errorClass |-> errorClass,
   validClass |-> validClass, notValidClass |-> notValidClass]

\* What a lookup gives for an id without element.
Undefined == "undefined"

\* document.getElementById(id)
GetElementById(id) ==
  IF id \in DOMAIN elements THEN elements[id] ELSE Undefined

\* An entry of the invocation log of a pass.
Call(kind, fieldId, rule, result) ==
  [kind |-> kind, fieldId |-> fieldId, rule |-> rule.id, result |-> result]

PageTitle(prefixes) == [prefixes |-> prefixes, base |-> OriginalPageTitle]

\* resetPageTitle
ResetPageTitle == PageTitle(<< >>)

\* resetErrorSummaryPanel: getElementById finds the first panel, if any.
ResetErrorSummaryPanel(panels) ==
  IF panels = << >> THEN panels ELSE Tail(panels)

\* A removeHints that removes nothing.
RemoveHintsNothing(fb) == fb

\* removeHints
RemoveHints(fb) ==
  [fb EXCEPT !.hints =
     [e \in DOMAIN fb.hints |->
        IF \E id \in DOMAIN elements : elements[id] = e
        THEN << >> ELSE fb.hints[e]]]

\* A removeHint that removes nothing.
RemoveHintNothing(fb, fieldId) == fb

\* A removeHint that selects '.hint' where the code selects '.<fieldId>-hint'.
RemoveHintAnyField(fb, fieldId) ==
  [fb EXCEPT !.hints = [f \in DOMAIN fb.hints |-> << >>]]

\* removeHint(fieldId)
RemoveHint(fb, fieldId) ==
  IF GetElementById(fieldId) \in DOMAIN fb.hints
  THEN [fb EXCEPT !.hints[GetElementById(fieldId)] = << >>]
  ELSE fb

\* An updatePageTitle that prefixes document.title as it stands rather than
\* this.originalPageTitle.
UpdatePageTitleStacking(errs) ==
  [prefixes |-> << Len(errs) >> \o title.prefixes, base |-> OriginalPageTitle]

\* updatePageTitle
UpdatePageTitle(errs) == PageTitle(<< Len(errs) >>)

\* showErrorSummaryPanel: a new panel first in the form, listing the errors.
ShowErrorSummaryPanel(panels, errs) ==
  << [count |-> Len(errs), items |-> errs] >> \o panels

\* A showHint without classList.remove('valid').
ShowHintKeepValid(fb, fieldId, error) ==
  LET element == GetElementById(fieldId)
  IN  [fb EXCEPT !.errorClass[element] = TRUE,
                 !.notValidClass[element] = TRUE,
                 !.hints[element] = Append(@, error.message)]

\* showHint(fieldId, error)
ShowHint(fb, fieldId, error) ==
  LET element == GetElementById(fieldId)
  IN  [fb EXCEPT !.errorClass[element] = TRUE,
                 !.validClass[element] = FALSE,
                 !.notValidClass[element] = TRUE,
                 !.hints[element] = Append(@, error.message)]

\* showHints: one hint per entry of this.errors, in order.
RECURSIVE ShowHints(_, _)
ShowHints(fb, errs) ==
  IF errs = << >> THEN fb
  ELSE ShowHints(ShowHint(fb, Head(errs).fieldId, Head(errs)), Tail(errs))

\* showValid(formElement)
ShowValid(fb, formElement) ==
  [fb EXCEPT !.errorClass[formElement] = FALSE,
             !.notValidClass[formElement] = FALSE,
             !.validClass[formElement] = TRUE]

(***************************************************************************)
(* FormValidator: registry and evaluation                                  *)
(***************************************************************************)

\* this.form.elements[element]: the control with that id now, undefined
\* when the form has none.
FormElement(element) ==
  IF element \in DOMAIN elements THEN elements[element] ELSE Undefined

\* The object addValidator pushes: field is looked up once, here.
Validator(element, rules) ==
  [fieldId |-> element, rules |-> rules, field |-> FormElement(element)]

\* validateForm's rules loop without the break after the first failure.
RECURSIVE FormRulesNoBreak(_, _, _, _)
FormRulesNoBreak(element, rulesIndex, fs, st) ==
  IF rulesIndex > Len(element.rules) THEN st
  ELSE
    LET rule == element.rules[rulesIndex]
        cond == Condition(rule, fs)
        meth == Method(rule, element.field, fs)
        afterCond ==
          IF rule.hasCondition
          THEN Append(st.calls, Call("condition", element.fieldId, rule, cond))
          ELSE st.calls
        afterMeth ==
          Append(afterCond, Call("method", element.fieldId, rule, meth))
    IN  IF rule.hasCondition /\ ~cond
        THEN FormRulesNoBreak(element, rulesIndex + 1, fs,
                              [st EXCEPT !.calls = afterCond])
        ELSE IF ~meth
        THEN FormRulesNoBreak(element, rulesIndex + 1, fs,
               [st EXCEPT
                  !.errors = Append(@, [fieldId |-> element.fieldId,
                                        message |-> rule.message]),
                  !.calls = afterMeth])
        ELSE FormRulesNoBreak(element, rulesIndex + 1, fs,
                              [st EXCEPT !.fb = ShowValid(@, element.field),
                                         !.calls = afterMeth])

\* validateForm's rules loop with the condition test inverted: a rule is
\* skipped when its condition is met.
RECURSIVE FormRulesGateInverted(_, _, _, _)
FormRulesGateInverted(element, rulesIndex, fs, st) ==
  IF rulesIndex > Len(element.rules) THEN st
  ELSE
    LET rule == element.rules[rulesIndex]
        cond == Condition(rule, fs)
        meth == Method(rule, element.field, fs)
        afterCond ==
          IF rule.hasCondition
          THEN Append(st.calls, Call("condition", element.fieldId, rule, cond))
          ELSE st.calls
        afterMeth ==
          Append(afterCond, Call("method", element.fieldId, rule, meth))
    IN  IF rule.hasCondition /\ cond
        THEN FormRulesGateInverted(element, rulesIndex + 1, fs,
                                   [st EXCEPT !.calls = afterCond])
        ELSE IF ~meth
        THEN [st EXCEPT
                !.errors = Append(@, [fieldId |-> element.fieldId,
                                      message |-> rule.message]),
                !.calls = afterMeth]
        ELSE FormRulesGateInverted(element, rulesIndex + 1, fs,
                                   [st EXCEPT !.fb = ShowValid(@, element.field),
                                              !.calls = afterMeth])

\* validateForm's rules loop with errors.unshift in place of errors.push.
RECURSIVE FormRulesUnshift(_, _, _, _)
FormRulesUnshift(element, rulesIndex, fs, st) ==
  IF rulesIndex > Len(element.rules) THEN st
  ELSE
    LET rule == element.rules[rulesIndex]
        cond == Condition(rule, fs)
        meth == Method(rule, element.field, fs)
        afterCond ==
          IF rule.hasCondition
          THEN Append(st.calls, Call("condition", element.fieldId, rule, cond))
          ELSE st.calls
        afterMeth ==
          Append(afterCond, Call("method", element.fieldId, rule, meth))
    IN  IF rule.hasCondition /\ ~cond
        THEN FormRulesUnshift(element, rulesIndex + 1, fs,
                              [st EXCEPT !.calls = afterCond])
        ELSE IF ~meth
        THEN [st EXCEPT
                !.errors = << [fieldId |-> element.fieldId,
                               message |-> rule.message] >> \o @,
                !.calls = afterMeth]
        ELSE FormRulesUnshift(element, rulesIndex + 1, fs,
                              [st EXCEPT !.fb = ShowValid(@, element.field),
                                         !.calls = afterMeth])

\* validateForm's rules loop with a try/catch around the method call that
\* records the rule as failed when the call raises.
RECURSIVE FormRulesSwallow(_, _, _, _)
FormRulesSwallow(element, rulesIndex, fs, st) ==
  IF rulesIndex > Len(element.rules) THEN st
  ELSE
    LET rule == element.rules[rulesIndex]
        cond == Condition(rule, fs)
        meth == element.field # Undefined /\ Method(rule, element.field, fs)
        afterCond ==
          IF rule.hasCondition
          THEN Append(st.calls, Call("condition", element.fieldId, rule, cond))
          ELSE st.calls
        afterMeth ==
          Append(afterCond, Call("method", element.fieldId, rule, meth))
    IN  IF rule.hasCondition /\ ~cond
        THEN FormRulesSwallow(element, rulesIndex + 1, fs,
                              [st EXCEPT !.calls = afterCond])
        ELSE IF ~meth
        THEN [st EXCEPT
                !.errors = Append(@, [fieldId |-> element.fieldId,
                                      message |-> rule.message]),
                !.calls = afterMeth]
        ELSE FormRulesSwallow(element, rulesIndex + 1, fs,
                              [st EXCEPT !.fb = ShowValid(@, element.field),
                                         !.calls = afterMeth])

\* The rules loop of validateForm for one validator, from rulesIndex on.
\* st = [errors, fb, calls, threw].  A method reads a property of its field:
\* called with undefined it raises a TypeError, which ends the pass.
RECURSIVE FormRules(_, _, _, _)
FormRules(element, rulesIndex, fs, st) ==
  IF rulesIndex > Len(element.rules) THEN st
  ELSE
    LET rule == element.rules[rulesIndex]
        cond == Condition(rule, fs)
        meth == Method(rule, element.field, fs)
        afterCond ==
          IF rule.hasCondition
          THEN Append(st.calls, Call("condition", element.fieldId, rule, cond))
          ELSE st.calls
        afterMeth ==
          Append(afterCond, Call("method", element.fieldId, rule, meth))
    IN  IF rule.hasCondition /\ ~cond
        THEN FormRules(element, rulesIndex + 1, fs, [st EXCEPT !.calls = afterCond])
        ELSE IF element.field = Undefined
        THEN [st EXCEPT !.threw = TRUE, !.calls = afterCond]
        ELSE IF ~meth
        THEN [st EXCEPT
                !.errors = Append(@, [fieldId |-> element.fieldId,
                                      message |-> rule.message]),
                !.calls = afterMeth]
        ELSE FormRules(element, rulesIndex + 1, fs,
                       [st EXCEPT !.fb = ShowValid(@, element.field),
                                  !.calls = afterMeth])

\* The validators loop of validateForm, from elementIndex on.
RECURSIVE FormElements(_, _, _, _)
FormElements(vs, elementIndex, fs, st) ==
  IF elementIndex > Len(vs) \/ st.threw THEN st
  ELSE FormElements(vs, elementIndex + 1, fs,
                    FormRules(vs[elementIndex], 1, fs, st))

\* validateForm() returning true whatever this.errors holds.
ValidateFormRetTrue(vs, fs, fb) ==
  LET st == FormElements(vs, 1, fs, [errors |-> << >>, fb |-> fb, calls |-> << >>, threw |-> FALSE])
  IN  [errors |-> st.errors, fb |-> st.fb, calls |-> st.calls, ret |-> TRUE,
       threw |-> st.threw]

\* validateForm() without the this.errors = [] that opens it.
ValidateFormNoReset(vs, fs, fb) ==
  LET st == FormElements(vs, 1, fs, [errors |-> errors, fb |-> fb, calls |-> << >>, threw |-> FALSE])
  IN  [errors |-> st.errors, fb |-> st.fb, calls |-> st.calls,
       ret |-> (Len(st.errors) = 0), threw |-> st.threw]

\* validateForm(): this.errors rebuilt from empty, the feedback as showValid
\* leaves it, the invocation log, the value returned, and whether the pass
\* ended in a TypeError (it then returns nothing).
ValidateForm(vs, fs, fb) ==
  LET st == FormElements(vs, 1, fs, [errors |-> << >>, fb |-> fb, calls |-> << >>, threw |-> FALSE])
  IN  [errors |-> st.errors, fb |-> st.fb, calls |-> st.calls,
       ret |-> (Len(st.errors) = 0), threw |-> st.threw]

\* A lookup that returns the last validator registered for the fieldId.
FindValidatorLast(vs, fieldId) ==
  IF \E i \in 1..Len(vs) : vs[i].fieldId = fieldId
  THEN CHOOSE i \in 1..Len(vs) :
         /\ vs[i].fieldId = fieldId
         /\ \A j \in (i + 1)..Len(vs) : vs[j].fieldId # fieldId
  ELSE 0

\* A lookup that falls back to the first validator when no fieldId matches.
FindValidatorOrFirst(vs, fieldId) ==
  IF \E i \in 1..Len(vs) : vs[i].fieldId = fieldId
  THEN CHOOSE i \in 1..Len(vs) :
         /\ vs[i].fieldId = fieldId
         /\ \A j \in 1..(i - 1) : vs[j].fieldId # fieldId
  ELSE IF vs = << >> THEN 0 ELSE 1

\* this.validators.find(validator => validator.fieldId === fieldId):
\* the index of the first match, 0 for undefined.
FindValidator(vs, fieldId) ==
  IF \E i \in 1..Len(vs) : vs[i].fieldId = fieldId
  THEN CHOOSE i \in 1..Len(vs) :
         /\ vs[i].fieldId = fieldId
         /\ \A j \in 1..(i - 1) : vs[j].fieldId # fieldId
  ELSE 0

\* validateField's rules loop without the condition test.
RECURSIVE FieldRulesNoGate(_, _, _, _, _)
FieldRulesNoGate(validator, fieldId, rulesIndex, fs, st) ==
  IF rulesIndex > Len(validator.rules) THEN st
  ELSE
    LET rule == validator.rules[rulesIndex]
        meth == Method(rule, validator.field, fs)
        afterMeth ==
          Append(st.calls, Call("method", validator.fieldId, rule, meth))
    IN  IF ~meth
        THEN [st EXCEPT
                !.fb = ShowHint(RemoveHint(@, fieldId), fieldId, rule),
                !.shown = Append(@, [fieldId |-> fieldId, message |-> rule.message]),
                !.calls = afterMeth]
        ELSE FieldRulesNoGate(validator, fieldId, rulesIndex + 1, fs,
                              [st EXCEPT
                                 !.fb = RemoveHint(ShowValid(@, validator.field), fieldId),
                                 !.calls = afterMeth])

\* The rules loop of validateField, from rulesIndex on.
\* st = [fb, calls, shown, threw].
RECURSIVE FieldRules(_, _, _, _, _)
FieldRules(validator, fieldId, rulesIndex, fs, st) ==
  IF rulesIndex > Len(validator.rules) THEN st
  ELSE
    LET rule == validator.rules[rulesIndex]
        cond == Condition(rule, fs)
        meth == Method(rule, validator.field, fs)
        afterCond ==
          IF rule.hasCondition
          THEN Append(st.calls, Call("condition", validator.fieldId, rule, cond))
          ELSE st.calls
        afterMeth ==
          Append(afterCond, Call("method", validator.fieldId, rule, meth))
    IN  IF rule.hasCondition /\ ~cond
        THEN FieldRules(validator, fieldId, rulesIndex + 1, fs,
                        [st EXCEPT !.calls = afterCond])
        ELSE IF validator.field = Undefined
        THEN [st EXCEPT !.threw = TRUE, !.calls = afterCond]
        ELSE IF ~meth
        THEN [st EXCEPT
                !.fb = ShowHint(RemoveHint(@, fieldId), fieldId, rule),
                !.shown = Append(@, [fieldId |-> fieldId, message |-> rule.message]),
                !.calls = afterMeth]
        ELSE FieldRules(validator, fieldId, rulesIndex + 1, fs,
                        [st EXCEPT
                           !.fb = RemoveHint(ShowValid(@, validator.field), fieldId),
                           !.calls = afterMeth])

\* validateField(fieldId): the feedback, the invocation log, the hints
\* shown, whether console.warn was called, and whether the pass ended in a
\* TypeError.
ValidateField(vs, fieldId, fs, fb) ==
  LET i == FindValidator(vs, fieldId)
      st0 == [fb |-> fb, calls |-> << >>, shown |-> << >>, threw |-> FALSE]
  IN  IF i = 0
      THEN [fb |-> fb, calls |-> << >>, shown |-> << >>, warned |-> TRUE,
            threw |-> FALSE]
      ELSE LET st == FieldRules(vs[i], fieldId, 1, fs, st0)
           IN  [fb |-> st.fb, calls |-> st.calls, shown |-> st.shown,
                warned |-> FALSE, threw |-> st.threw]

(***************************************************************************)
(* Page load                                                               *)
(***************************************************************************)

NoOp(op) == [op |-> op, fieldId |-> ""]

FieldOp(op, fieldId) == [op |-> op, fieldId |-> fieldId]

\* The page once the script has run addRegFormDefaults,
\* addRegFormEventListeners and new FormValidator(regForm).
Init ==
  /\ validators = << >>
  /\ errors = << >>
  /\ elements = [id \in AllIds |-> id]
  /\ value = [f \in InputIds |-> << >>]
  /\ payment = "credit-card"
  /\ checked = {}
  /\ disabled = {}
  /\ totalCost = 0
  /\ costText = 0
  /\ display = [p \in PaymentTypes |-> IF p = "credit-card" THEN "" ELSE "none"]
  /\ title = PageTitle(<< >>)
  /\ errorSummary = << >>
  /\ hints = [f \in FieldIds |-> << >>]
  /\ errorClass = [f \in FieldIds |-> FALSE]
  /\ validClass = [f \in FieldIds |-> FALSE]
  /\ notValidClass = [f \in FieldIds |-> FALSE]
  /\ reloading = FALSE
  /\ lastOp = NoOp("load")
  /\ calls = << >>
  /\ shown = << >>
  /\ ret = TRUE
  /\ warned = FALSE
  /\ threw = FALSE
  /\ events = 0

\* The listeners are attached once the rule set is registered.
Ready == Len(validators) = Len(Registrations) /\ ~reloading

\* A user event, counted.
UserEvent == Ready /\ events < MaxEvents /\ events' = events + 1

\* The listeners leave the history of the last pass behind them.
NoPass(op) ==
  /\ lastOp' = op
  /\ calls' = << >>
  /\ shown' = << >>
  /\ ret' = TRUE
  /\ warned' = FALSE
  /\ threw' = FALSE

(***************************************************************************)
(* Actions                                                                 *)
(***************************************************************************)

\* An addValidator that unshifts the new object instead of pushing it.
AddValidatorUnshift ==
  /\ ~reloading
  /\ Len(validators) < Len(Registrations)
  /\ LET reg == Registrations[Len(validators) + 1]
     IN  validators' = << Validator(reg.fieldId, reg.rules) >> \o validators
  /\ NoPass(NoOp("addValidator"))
  /\ UNCHANGED << errors, formVars, feedbackVars, summaryVars, reloading, events >>

\* addValidator(element, rules): the next call of addRegFormValidationRules.
AddValidator ==
  /\ ~reloading
  /\ Len(validators) < Len(Registrations)
  /\ LET reg == Registrations[Len(validators) + 1]
     IN  validators' = Append(validators, Validator(reg.fieldId, reg.rules))
  /\ NoPass(NoOp("addValidator"))
  /\ UNCHANGED << errors, formVars, feedbackVars, summaryVars, reloading, events >>

\* The feedback variables take the values of fb.
SetFeedback(fb) ==
  /\ hints' = fb.hints
  /\ errorClass' = fb.errorClass
  /\ validClass' = fb.validClass
  /\ notValidClass' = fb.notValidClass

\* What every validateField caller does.
RunValidateField(fieldId, fs) ==
  \E r \in {ValidateField(validators, fieldId, fs, Feedback)} :
      /\ SetFeedback(r.fb)
      /\ lastOp' = FieldOp("validateField", fieldId)
      /\ calls' = r.calls
      /\ shown' = r.shown
      /\ warned' = r.warned
      /\ threw' = r.threw
      /\ ret' = TRUE

\* 'input' on #name or #email: the user has changed the value.
InputEvent(f, v) ==
  /\ UserEvent
  /\ v # value[f]
  /\ value' = [value EXCEPT ![f] = v]
  /\ RunValidateField(f, [FormState EXCEPT !.value = value'])
  /\ UNCHANGED << validators, errors, elements, payment, checked, disabled, totalCost,
                  costText, display, summaryVars, reloading >>

\* 'blur' on #name or #email.
BlurEvent(f) ==
  /\ UserEvent
  /\ RunValidateField(f, FormState)
  /\ UNCHANGED << validators, errors, formVars, summaryVars, reloading >>

\* validateField(fieldId) called for a control without real-time listeners.
ValidateFieldCall(fieldId) ==
  /\ UserEvent
  /\ RunValidateField(fieldId, FormState)
  /\ UNCHANGED << validators, errors, formVars, summaryVars, reloading >>

\* The user edits #cc-num, #zip or #cvv: no listener runs.
EditInput(f, v) ==
  /\ UserEvent
  /\ v # value[f]
  /\ value' = [value EXCEPT ![f] = v]
  /\ NoPass(NoOp("edit"))
  /\ UNCHANGED << validators, errors, elements, payment, checked, disabled, totalCost,
                  costText, display, feedbackVars, summaryVars, reloading >>

\* 'change' on an activity checkbox with a cost listener that adds the cost
\* whether the box was checked or unchecked.
ActivityChangeAlwaysAdd(clickedCheckbox) ==
  /\ UserEvent
  /\ clickedCheckbox \notin disabled
  /\ LET nowChecked == clickedCheckbox \notin checked
         conflicts ==
           {activity \in Activities :
              /\ activity # clickedCheckbox
              /\ DayAndTime[activity] = DayAndTime[clickedCheckbox]}
         checkboxCost == Cost[clickedCheckbox]
     IN  /\ checked' = IF nowChecked
                       THEN checked \cup {clickedCheckbox}
                       ELSE checked \ {clickedCheckbox}
         /\ disabled' = IF nowChecked
                        THEN disabled \cup conflicts
                        ELSE disabled \ conflicts
         /\ totalCost' = totalCost + checkboxCost
         /\ costText' = totalCost'
  /\ NoPass(NoOp("activityChange"))
  /\ UNCHANGED << validators, errors, elements, value, payment, display, feedbackVars,
                  summaryVars, reloading >>

\* 'change' on an activity checkbox with a conflict listener that never
\* removes the disabled attribute.
ActivityChangeNoEnable(clickedCheckbox) ==
  /\ UserEvent
  /\ clickedCheckbox \notin disabled
  /\ LET nowChecked == clickedCheckbox \notin checked
         conflicts ==
           {activity \in Activities :
              /\ activity # clickedCheckbox
              /\ DayAndTime[activity] = DayAndTime[clickedCheckbox]}
         checkboxCost == Cost[clickedCheckbox]
     IN  /\ checked' = IF nowChecked
                       THEN checked \cup {clickedCheckbox}
                       ELSE checked \ {clickedCheckbox}
         /\ disabled' = IF nowChecked
                        THEN disabled \cup conflicts
                        ELSE disabled
         /\ totalCost' = IF nowChecked
                         THEN totalCost + checkboxCost
                         ELSE totalCost - checkboxCost
         /\ costText' = totalCost'
  /\ NoPass(NoOp("activityChange"))
  /\ UNCHANGED << validators, errors, elements, value, payment, display, feedbackVars,
                  summaryVars, reloading >>

\* 'change' on an activity checkbox with a conflict listener that never sets
\* the disabled attribute.
ActivityChangeNoDisable(clickedCheckbox) ==
  /\ UserEvent
  /\ clickedCheckbox \notin disabled
  /\ LET nowChecked == clickedCheckbox \notin checked
         checkboxCost == Cost[clickedCheckbox]
     IN  /\ checked' = IF nowChecked
                       THEN checked \cup {clickedCheckbox}
                       ELSE checked \ {clickedCheckbox}
         /\ disabled' = disabled
         /\ totalCost' = IF nowChecked
                         THEN totalCost + checkboxCost
                         ELSE totalCost - checkboxCost
         /\ costText' = totalCost'
  /\ NoPass(NoOp("activityChange"))
  /\ UNCHANGED << validators, errors, elements, value, payment, display, feedbackVars,
                  summaryVars, reloading >>

\* 'change' on an activity checkbox: the conflict listener of the checkbox,
\* then the cost listener of #activities.  A disabled checkbox cannot be
\* clicked.
ActivityChange(clickedCheckbox) ==
  /\ UserEvent
  /\ clickedCheckbox \notin disabled
  /\ LET nowChecked == clickedCheckbox \notin checked
         conflicts ==
           {activity \in Activities :
              /\ activity # clickedCheckbox
              /\ DayAndTime[activity] = DayAndTime[clickedCheckbox]}
         checkboxCost == Cost[clickedCheckbox]
     IN  /\ checked' = IF nowChecked
                       THEN checked \cup {clickedCheckbox}
                       ELSE checked \ {clickedCheckbox}
         /\ disabled' = IF nowChecked
                        THEN disabled \cup conflicts
                        ELSE disabled \ conflicts
         /\ totalCost' = IF nowChecked
                         THEN totalCost + checkboxCost
                         ELSE totalCost - checkboxCost
         /\ costText' = totalCost'
  /\ NoPass(NoOp("activityChange"))
  /\ UNCHANGED << validators, errors, elements, value, payment, display, feedbackVars,
                  summaryVars, reloading >>

\* 'change' on #payment with a listener that shows the chosen section and
\* hides no other.
PaymentChangeNoHide(p) ==
  /\ UserEvent
  /\ p # payment
  /\ payment' = p
  /\ display' = [display EXCEPT ![p] = "block"]
  /\ NoPass(NoOp("paymentChange"))
  /\ UNCHANGED << validators, errors, elements, value, checked, disabled, totalCost,
                  costText, feedbackVars, summaryVars, reloading >>

\* 'change' on #payment.
PaymentChange(p) ==
  /\ UserEvent
  /\ p # payment
  /\ payment' = p
  /\ display' = [div \in PaymentTypes |-> IF div = p THEN "block" ELSE "none"]
  /\ NoPass(NoOp("paymentChange"))
  /\ UNCHANGED << validators, errors, elements, value, checked, disabled, totalCost,
                  costText, feedbackVars, summaryVars, reloading >>

\* A submit handler that tests validateForm() where the code tests
\* !validateForm().
SubmitsInverted(r) == ~r.ret

\* The test of the submit listener: the else branch (submission) is taken
\* when !validateForm() is false.
Submits(r) == r.ret

\* 'submit' on the form.  A TypeError out of validateForm() ends the
\* listener where it is, after ev.preventDefault() and the three resets.
SubmitEvent ==
  /\ UserEvent
  /\ \E r \in {ValidateForm(validators, FormState, RemoveHints(Feedback))} :
         /\ errors' = r.errors
         /\ calls' = r.calls
         /\ ret' = r.ret
         /\ threw' = r.threw
         /\ IF r.threw
            THEN /\ title' = ResetPageTitle
                 /\ errorSummary' = ResetErrorSummaryPanel(errorSummary)
                 /\ SetFeedback(r.fb)
                 /\ reloading' = FALSE
            ELSE IF ~Submits(r)
            THEN /\ title' = UpdatePageTitle(r.errors)
                 /\ errorSummary' =
                      ShowErrorSummaryPanel(ResetErrorSummaryPanel(errorSummary),
                                            r.errors)
                 /\ SetFeedback(ShowHints(r.fb, r.errors))
                 /\ reloading' = FALSE
            ELSE /\ title' = ResetPageTitle
                 /\ errorSummary' = ResetErrorSummaryPanel(errorSummary)
                 /\ SetFeedback(r.fb)
                 /\ reloading' = TRUE
  /\ lastOp' = NoOp("submit")
  /\ shown' = << >>
  /\ warned' = FALSE
  /\ UNCHANGED << validators, formVars >>

\* The page reloads after location.reload(): the script runs again.
Reload ==
  /\ reloading
  /\ validators' = << >>
  /\ errors' = << >>
  /\ elements' = elements
  /\ value' = [f \in InputIds |-> << >>]
  /\ payment' = "credit-card"
  /\ checked' = {}
  /\ disabled' = {}
  /\ totalCost' = 0
  /\ costText' = 0
  /\ display' = [p \in PaymentTypes |-> IF p = "credit-card" THEN "" ELSE "none"]
  /\ title' = PageTitle(<< >>)
  /\ errorSummary' = << >>
  /\ hints' = [f \in FieldIds |-> << >>]
  /\ errorClass' = [f \in FieldIds |-> FALSE]
  /\ validClass' = [f \in FieldIds |-> FALSE]
  /\ notValidClass' = [f \in FieldIds |-> FALSE]
  /\ reloading' = FALSE
  /\ NoPass(NoOp("load"))
  /\ UNCHANGED events

Next ==
  \/ AddValidator
  \/ \E f \in RealTimeIds : \E v \in InputValues(f) : InputEvent(f, v)
  \/ \E f \in RealTimeIds : BlurEvent(f)
  \/ \E fieldId \in DirectCallIds : ValidateFieldCall(fieldId)
  \/ \E f \in InputIds \ RealTimeIds : \E v \in InputValues(f) : EditInput(f, v)
  \/ \E a \in Activities : ActivityChange(a)
  \/ \E p \in PaymentTypes : PaymentChange(p)
  \/ SubmitEvent
  \/ Reload

Spec == Init /\ [][Next]_vars

\* The page as the script wires it: validateField runs from the 'input' and
\* 'blur' listeners of #name and #email only.
NextWired ==
  \/ AddValidator
  \/ \E f \in RealTimeIds : \E v \in InputValues(f) : InputEvent(f, v)
  \/ \E f \in RealTimeIds : BlurEvent(f)
  \/ \E f \in InputIds \ RealTimeIds : \E v \in InputValues(f) : EditInput(f, v)
  \/ \E a \in Activities : ActivityChange(a)
  \/ \E p \in PaymentTypes : PaymentChange(p)
  \/ SubmitEvent
  \/ Reload

SpecWired == Init /\ [][NextWired]_vars

(***************************************************************************)
(* The class on its own.  FormValidator 'aims to be a generic form         *)
(* validation class': here a script other than this page's constructs one  *)
(* on a form and calls addValidator, validateField and validateForm in any *)
(* order, while controls of the form are typed into, replaced and added.   *)
(***************************************************************************)

\* The ids that script registers validators for: the form has a #name when
\* the FormValidator is constructed, and no #nickname.
GenericIds == {"name", "nickname"}

\* The controls (an <input> with its <label>) that can carry each id: the
\* #name of the start, a second #name that can take its place, and a
\* #nickname that can be added.
ControlsOf(id) ==
  CASE id = "name" -> {"name", "name-2"}
    [] id = "nickname" -> {"nickname"}

GenericControls == UNION {ControlsOf(id) : id \in GenericIds}

\* The rule lists that script passes to addValidator.
GenericRules == { << NameRules[1] >>, << NameRules[2] >> }

\* What is typed into a control.
GenericValues == { << >>, <<"A", "l">>, <<"A", "n", "n">> }

\* How many calls and edits a behaviour of that script holds.
MaxCalls == 4

InitGeneric ==
  /\ validators = << >>
  /\ errors = << >>
  /\ elements = [id \in GenericIds |-> IF id = "name" THEN "name" ELSE Undefined]
  /\ value = [e \in GenericControls |-> << >>]
  /\ payment = "credit-card"
  /\ checked = {}
  /\ disabled = {}
  /\ totalCost = 0
  /\ costText = 0
  /\ display = [p \in PaymentTypes |-> IF p = "credit-card" THEN "" ELSE "none"]
  /\ title = PageTitle(<< >>)
  /\ errorSummary = << >>
  /\ hints = [e \in GenericControls |-> << >>]
  /\ errorClass = [e \in GenericControls |-> FALSE]
  /\ validClass = [e \in GenericControls |-> FALSE]
  /\ notValidClass = [e \in GenericControls |-> FALSE]
  /\ reloading = FALSE
  /\ lastOp = NoOp("load")
  /\ calls = << >>
  /\ shown = << >>
  /\ ret = TRUE
  /\ warned = FALSE
  /\ threw = FALSE
  /\ events = 0

GenericStep == events < MaxCalls /\ events' = events + 1

\* addValidator(element, rules), whatever the registry holds already and
\* whether or not the form has a control with that id.
AddValidatorCall(element, rules) ==
  /\ GenericStep
  /\ validators' = Append(validators, Validator(element, rules))
  /\ NoPass(NoOp("addValidator"))
  /\ UNCHANGED << errors, formVars, feedbackVars, summaryVars, reloading >>

\* The control with that id is replaced by another one, or the form gets a
\* control with that id.  The control taken out keeps its value, its label
\* and what its label shows, outside the document.
BindControl(id, e) ==
  /\ GenericStep
  /\ e # elements[id]
  /\ elements' = [elements EXCEPT ![id] = e]
  /\ NoPass(NoOp("bind"))
  /\ UNCHANGED << validators, errors, value, payment, checked, disabled,
                  totalCost, costText, display, feedbackVars, summaryVars,
                  reloading >>

\* The user types into the control that has the id now.
TypeInto(id, v) ==
  /\ GenericStep
  /\ elements[id] # Undefined
  /\ v # value[elements[id]]
  /\ value' = [value EXCEPT ![elements[id]] = v]
  /\ NoPass(NoOp("edit"))
  /\ UNCHANGED << validators, errors, elements, payment, checked, disabled,
                  totalCost, costText, display, feedbackVars, summaryVars,
                  reloading >>

\* validateField(fieldId)
ValidateFieldGeneric(fieldId) ==
  /\ GenericStep
  /\ RunValidateField(fieldId, FormState)
  /\ UNCHANGED << validators, errors, formVars, summaryVars, reloading >>

\* validateForm()
ValidateFormGeneric ==
  /\ GenericStep
  /\ \E r \in {ValidateForm(validators, FormState, Feedback)} :
         /\ errors' = r.errors
         /\ SetFeedback(r.fb)
         /\ calls' = r.calls
         /\ ret' = r.ret
         /\ threw' = r.threw
  /\ lastOp' = NoOp("validateForm")
  /\ shown' = << >>
  /\ warned' = FALSE
  /\ UNCHANGED << validators, formVars, summaryVars, reloading >>

NextGeneric ==
  \/ \E id \in GenericIds : \E rules \in GenericRules : AddValidatorCall(id, rules)
  \/ \E id \in GenericIds : \E e \in ControlsOf(id) : BindControl(id, e)
  \/ \E id \in GenericIds : \E v \in GenericValues : TypeInto(id, v)
  \/ \E id \in GenericIds : ValidateFieldGeneric(id)
  \/ ValidateFormGeneric

SpecGeneric == InitGeneric /\ [][NextGeneric]_vars

(***************************************************************************)
(* The payment rules as functions of the value.  The page is set up, the   *)
(* user has typed one value into one of #cc-num, #zip and #cvv (no         *)
(* listener runs on these), and one pass evaluates the rules on it.        *)
(***************************************************************************)

PaymentFieldIds == {"cc-num", "zip", "cvv"}

\* The characters of the values typed: a digit, and what the numeric string
\* grammar of isNaN allows besides digits.
RuleChars == {"1", "-", ".", "e", " "}

\* The longest value typed into #zip and #cvv.
MaxLen == 5

\* The values typed: every string of RuleChars up to MaxLen for #zip and
\* #cvv; for #cc-num runs of 12 to 17 digits, alone or behind one more
\* character, and short strings.
RuleInputs(id) ==
  IF id = "cc-num"
  THEN {[i \in 1..n |-> "1"] : n \in 12..17}
         \cup {<< c >> \o [i \in 1..n |-> "1"] : c \in RuleChars, n \in 12..15}
         \cup {[i \in 1..n |-> "1"] \o << c >> : c \in RuleChars, n \in 12..15}
         \cup UNION {[1..k -> RuleChars] : k \in 0..2}
  ELSE UNION {[1..k -> RuleChars] : k \in 0..MaxLen}

InitRules ==
  /\ elements = [id \in AllIds |-> id]
  /\ validators =
       [i \in 1..Len(Registrations) |->
          [fieldId |-> Registrations[i].fieldId,
           rules |-> Registrations[i].rules,
           field |-> Registrations[i].fieldId]]
  /\ errors = << >>
  /\ \E f \in PaymentFieldIds : \E v \in RuleInputs(f) :
       value = [g \in InputIds |-> IF g = f THEN v ELSE << >>]
  /\ payment = "credit-card"
  /\ checked = {}
  /\ disabled = {}
  /\ totalCost = 0
  /\ costText = 0
  /\ display = [p \in PaymentTypes |-> IF p = "credit-card" THEN "" ELSE "none"]
  /\ title = PageTitle(<< >>)
  /\ errorSummary = << >>
  /\ hints = [f \in FieldIds |-> << >>]
  /\ errorClass = [f \in FieldIds |-> FALSE]
  /\ validClass = [f \in FieldIds |-> FALSE]
  /\ notValidClass = [f \in FieldIds |-> FALSE]
  /\ reloading = FALSE
  /\ lastOp = NoOp("edit")
  /\ calls = << >>
  /\ shown = << >>
  /\ ret = TRUE
  /\ warned = FALSE
  /\ threw = FALSE
  /\ events = 0

\* One pass on the value typed: validateField on a payment field, or the
\* submit listener.
NextRules ==
  \/ \E fieldId \in PaymentFieldIds : events = 0 /\ ValidateFieldCall(fieldId)
  \/ events = 0 /\ SubmitEvent

SpecRules == InitRules /\ [][NextRules]_vars

(***************************************************************************)
(* The page with a control missing.  The script names #cc-num only in the  *)
(* rule set: on a page whose markup has no #cc-num it sets up as usual,    *)
(* addValidator stores undefined as the field, and the first cc-num        *)
(* predicate a pass calls raises a TypeError.                              *)
(***************************************************************************)

MissingIds == {"cc-num"}

InitMissing ==
  /\ validators = << >>
  /\ errors = << >>
  /\ elements = [id \in AllIds \ MissingIds |-> id]
  /\ value = [f \in InputIds |-> << >>]
  /\ payment = "credit-card"
  /\ checked = {}
  /\ disabled = {}
  /\ totalCost = 0
  /\ costText = 0
  /\ display = [p \in PaymentTypes |-> IF p = "credit-card" THEN "" ELSE "none"]
  /\ title = PageTitle(<< >>)
  /\ errorSummary = << >>
  /\ hints = [f \in FieldIds |-> << >>]
  /\ errorClass = [f \in FieldIds |-> FALSE]
  /\ validClass = [f \in FieldIds |-> FALSE]
  /\ notValidClass = [f \in FieldIds |-> FALSE]
  /\ reloading = FALSE
  /\ lastOp = NoOp("load")
  /\ calls = << >>
  /\ shown = << >>
  /\ ret = TRUE
  /\ warned = FALSE
  /\ threw = FALSE
  /\ events = 0

\* The listeners and calls of Next; no one types into the missing control.
NextMissing ==
  \/ AddValidator
  \/ \E f \in RealTimeIds : \E v \in InputValues(f) : InputEvent(f, v)
  \/ \E f \in RealTimeIds : BlurEvent(f)
  \/ \E fieldId \in DirectCallIds : ValidateFieldCall(fieldId)
  \/ \E f \in InputIds \ (RealTimeIds \cup MissingIds) :
       \E v \in InputValues(f) : EditInput(f, v)
  \/ \E a \in Activities : ActivityChange(a)
  \/ \E p \in PaymentTypes : PaymentChange(p)
  \/ SubmitEvent
  \/ Reload

SpecMissing == InitMissing /\ [][NextMissing]_vars

(***************************************************************************)
(* Vocabulary of the properties                                            *)
(***************************************************************************)

AfterSubmit == lastOp.op = "submit"

AfterValidateField(fieldId) ==
  lastOp.op = "validateField" /\ lastOp.fieldId = fieldId

\* The rule is not gated out: it has no condition, or its condition is true.
Active(rule) == ~rule.hasCondition \/ Condition(rule, FormState)

\* Rule k of validator v is active and its predicate fails on the page as
\* it is.
RuleFails(v, k) == Active(v.rules[k]) /\ ~Method(v.rules[k], v.field, FormState)

\* The first failing rule of v, 0 when no rule fails.
FirstFailing(v) ==
  IF \E k \in 1..Len(v.rules) : RuleFails(v, k)
  THEN CHOOSE k \in 1..Len(v.rules) :
         RuleFails(v, k) /\ \A j \in 1..(k - 1) : ~RuleFails(v, j)
  ELSE 0

ErrorRecord(fieldId, message) == [fieldId |-> fieldId, message |-> message]

\* The records of this.errors for one field, in order.
ErrorsOf(fieldId) == SelectSeq(errors, LAMBDA e : e.fieldId = fieldId)

\* The registered rule with that id.
RuleById(id) ==
  CHOOSE rule \in UNION {{validators[i].rules[k] : k \in 1..Len(validators[i].rules)}
                           : i \in 1..Len(validators)} : rule.id = id

(***************************************************************************)
(* C1  Short-circuit result.  After a validateForm pass, a validator whose *)
(* first failing rule (rules gated out by their condition ignored) is r_k  *)
(* has exactly one record in this.errors, with r_k's message, whatever     *)
(* the later rules would answer; an empty name gives 'Name is required',   *)
(* the name "Al" gives 'Name must be at least 3 characters long'.          *)
(***************************************************************************)
C1_ShortCircuit ==
  AfterSubmit =>
    /\ \A i \in 1..Len(validators) :
         LET v == validators[i]
             k == FirstFailing(v)
         IN  k # 0 =>
               ErrorsOf(v.fieldId) = << ErrorRecord(v.fieldId, v.rules[k].message) >>
    /\ value["name"] = << >> =>
         ErrorsOf("name") = << ErrorRecord("name", "Name is required") >>
    /\ value["name"] = << "A", "l" >> =>
         ErrorsOf("name") =
           << ErrorRecord("name", "Name must be at least 3 characters long") >>

\* A pass in which a field's first failing rule is followed by another rule
\* that fails too, and in which the name is "Al".
C1_Witness ==
  /\ AfterSubmit
  /\ value["name"] = << "A", "l" >>
  /\ Len(ErrorsOf("name")) = 1
  /\ \E i \in 1..Len(validators) :
       LET v == validators[i]
           k == FirstFailing(v)
       IN  /\ k # 0
           /\ \E j \in (k + 1)..Len(v.rules) : RuleFails(v, j)
           /\ Len(ErrorsOf(v.fieldId)) = 1

(***************************************************************************)
(* C2  Condition gating.  In a validateForm or validateField pass, a       *)
(* predicate of a rule with a condition is invoked only right after that   *)
(* condition returned true; a rule whose condition returned false has no   *)
(* predicate invocation in the pass and contributes no error and no hint.  *)
(***************************************************************************)
C2_ConditionGating ==
  lastOp.op \in {"submit", "validateField"} =>
    \A i \in 1..Len(calls) :
      LET c == calls[i]
          rule == RuleById(c.rule)
      IN  /\ (c.kind = "method" /\ rule.hasCondition) =>
                /\ i > 1
                /\ calls[i - 1] =
                     [kind |-> "condition", fieldId |-> c.fieldId,
                      rule |-> c.rule, result |-> TRUE]
          /\ (c.kind = "condition" /\ ~c.result) =>
                /\ \A j \in 1..Len(calls) :
                     ~(calls[j].kind = "method" /\ calls[j].rule = c.rule)
                /\ AfterSubmit =>
                     \A n \in 1..Len(errors) : errors[n].message # rule.message
                /\ \A n \in 1..Len(shown) : shown[n].message # rule.message

\* A pass that skipped a rule whose predicate would have failed.
C2_Witness ==
  /\ lastOp.op \in {"submit", "validateField"}
  /\ \E i \in 1..Len(calls) :
       /\ calls[i].kind = "condition"
       /\ ~calls[i].result
       /\ ~Method(RuleById(calls[i].rule), calls[i].fieldId, FormState)

(***************************************************************************)
(* C3  On every submit event the reload branch runs if and only if         *)
(* validateForm returned true; a pass with an error never submits.         *)
(***************************************************************************)
C3_SubmitIffValid ==
  /\ AfterSubmit => (reloading <=> ret)
  /\ AfterSubmit /\ errors # << >> => ~reloading
  /\ reloading => AfterSubmit

\* A submit that went through.
C3_Witness == AfterSubmit /\ reloading /\ ret /\ errors = << >>

(***************************************************************************)
(* C4  validateForm returns true exactly when the errors list of the pass  *)
(* is empty, which is exactly when no registered validator has an active   *)
(* rule whose predicate fails.                                             *)
(***************************************************************************)
C4_ReturnValue ==
  AfterSubmit =>
    /\ ret <=> (errors = << >>)
    /\ (errors = << >>) <=>
         ~\E i \in 1..Len(validators) :
            \E k \in 1..Len(validators[i].rules) : RuleFails(validators[i], k)

\* A pass that returned false although the credit card rules, all failing
\* on the empty inputs, were gated out.
C4_Witness ==
  /\ AfterSubmit
  /\ ~ret
  /\ payment # "credit-card"
  /\ value["cc-num"] = << >>
  /\ Len(errors) = 1

(***************************************************************************)
(* C5  Supersession.  After a field has been evaluated (by a submit or by  *)
(* validateField) its feedback reflects that evaluation only: a field with *)
(* a failing rule carries exactly the hint of its first failing rule and   *)
(* the invalid marking, and a field that is now valid (every rule passed   *)
(* or was skipped) carries no hint and no invalid marking from an earlier  *)
(* pass.                                                                   *)
(***************************************************************************)
C5_Supersession ==
  \A i \in 1..Len(validators) :
    LET v == validators[i]
        f == v.fieldId
        k == FirstFailing(v)
    IN  (AfterSubmit \/ AfterValidateField(f)) =>
          IF k # 0
          THEN /\ hints[f] = << v.rules[k].message >>
               /\ notValidClass[f]
               /\ errorClass[f]
               /\ ~validClass[f]
          ELSE /\ hints[f] = << >>
               /\ ~notValidClass[f]
               /\ ~errorClass[f]

(***************************************************************************)
(* C6  A field whose every rule is condition-skipped is treated as valid   *)
(* in both evaluation modes: no error record, no hint, and the 'valid'     *)
(* presentation state; so for cc-num, zip and cvv, whatever their value,   *)
(* whenever the payment method is not 'credit-card'.                       *)
(***************************************************************************)
C6_AllSkippedValid ==
  \A i \in 1..Len(validators) :
    LET v == validators[i]
        f == v.fieldId
    IN  /\ (AfterSubmit \/ AfterValidateField(f))
        /\ \A k \in 1..Len(v.rules) : ~Active(v.rules[k])
        => /\ AfterSubmit => ErrorsOf(f) = << >>
           /\ hints[f] = << >>
           /\ validClass[f]
           /\ ~notValidClass[f]

(***************************************************************************)
(* C7  Order preservation.  The errors list of validateForm lists fields   *)
(* in registration order; with name invalid, email valid and activities    *)
(* invalid these three fields have exactly two entries, name then          *)
(* activities.                                                             *)
(***************************************************************************)
C7_OrderPreservation ==
  AfterSubmit =>
    /\ \A m \in 1..Len(errors) : \A n \in (m + 1)..Len(errors) :
         FindValidator(validators, errors[m].fieldId)
           < FindValidator(validators, errors[n].fieldId)
    /\ ( /\ FirstFailing(validators[1]) # 0
         /\ FirstFailing(validators[2]) = 0
         /\ FirstFailing(validators[3]) # 0 )
       => LET three == SelectSeq(errors,
                         LAMBDA e : e.fieldId \in {"name", "email", "activities"})
          IN  /\ Len(three) = 2
              /\ three[1].fieldId = "name"
              /\ three[2].fieldId = "activities"

\* Scenario E with the credit card fields gated out: two entries in all.
C7_Witness ==
  /\ AfterSubmit
  /\ FirstFailing(validators[1]) # 0
  /\ FirstFailing(validators[2]) = 0
  /\ FirstFailing(validators[3]) # 0
  /\ Len(errors) = 2
  /\ errors[1].fieldId = "name"
  /\ errors[2].fieldId = "activities"

(***************************************************************************)
(* C8  Single-field evaluation follows the per-field algorithm of the      *)
(* full-form evaluation: for a registered field and any page state,        *)
(* validateField shows a hint with message m exactly when validateForm on  *)
(* the same state records an error with message m for the field, and shows *)
(* no hint exactly when validateForm records none for it.                  *)
(***************************************************************************)
C8_SameAlgorithm ==
  lastOp.op \in {"submit", "validateField"} =>
  \A allErrors \in {ValidateForm(validators, FormState, Feedback).errors} :
    \A i \in 1..Len(validators) :
      \A fieldShown \in
          {ValidateField(validators, validators[i].fieldId, FormState, Feedback).shown} :
        LET f == validators[i].fieldId
            formErrors == SelectSeq(allErrors, LAMBDA e : e.fieldId = f)
        IN  \* validateField(f), were it called on the state of this pass
            /\ \A n \in 1..Len(fieldShown) : fieldShown[n].fieldId = f
            /\ {fieldShown[n].message : n \in 1..Len(fieldShown)}
                 = {formErrors[n].message : n \in 1..Len(formErrors)}
            /\ (fieldShown = << >>) <=> (formErrors = << >>)
            \* validateField(f), when it has just run
            /\ AfterValidateField(f) => shown = fieldShown

\* validateField on a field with gated rules has shown the hint of the rule
\* validateForm would record.
C8_Witness ==
  /\ AfterValidateField("cc-num")
  /\ payment = "credit-card"
  /\ shown = << ErrorRecord("cc-num", "Credit card number is required") >>

(***************************************************************************)
(* C9  After any validateForm pass the errors list holds at most one       *)
(* record per field identifier.                                            *)
(***************************************************************************)
C9_OneErrorPerField ==
  \A m \in 1..Len(errors) : \A n \in 1..Len(errors) :
    errors[m].fieldId = errors[n].fieldId => m = n

\* A second pass in a row, on a form where several rules of one field fail.
C9_Witness ==
  /\ AfterSubmit
  /\ events >= 2
  /\ Len(errors) >= 2
  /\ \E k \in 2..Len(validators[1].rules) : RuleFails(validators[1], k)
  /\ RuleFails(validators[1], 1)

(***************************************************************************)
(* C10  Unknown-field safety.  validateField on an identifier without a    *)
(* registered validator only warns: it invokes no rule, shows no hint, and *)
(* leaves the hints and markings of every field, the errors list, the      *)
(* summary, the title and the registry as they were.                       *)
(***************************************************************************)
C10_UnknownField ==
  [][ \A id \in UnregisteredIds :
        lastOp' = FieldOp("validateField", id) =>
          /\ warned'
          /\ calls' = << >>
          /\ shown' = << >>
          /\ UNCHANGED << feedbackVars, errors, summaryVars, validators, reloading >>
    ]_vars

\* validateField('title') on a page that shows hints.
C10_Witness ==
  /\ AfterValidateField("title")
  /\ warned
  /\ \E f \in FieldIds : hints[f] # << >>
  /\ errors # << >>

(***************************************************************************)
(* C11  Frame of validateField.  validateField(f) on a registered field f  *)
(* leaves the hints and the valid / not-valid / error marking of every     *)
(* other field, the errors list, the error summary panel, the page title   *)
(* and the registry as they were.                                          *)
(***************************************************************************)
C11_FieldFrame ==
  [][ \A f \in FieldIds :
        lastOp' = FieldOp("validateField", f) =>
          /\ \A g \in FieldIds \ {f} :
               /\ hints'[g] = hints[g]
               /\ errorClass'[g] = errorClass[g]
               /\ validClass'[g] = validClass[g]
               /\ notValidClass'[g] = notValidClass[g]
          /\ UNCHANGED << errors, summaryVars, validators >>
    ]_vars

\* validateField('name') has just marked #name valid on a page where a
\* failed submit left hints on other fields, a summary and a counted title.
C11_Witness ==
  /\ AfterValidateField("name")
  /\ validClass["name"] /\ hints["name"] = << >>
  /\ hints["email"] # << >> /\ notValidClass["activities"]
  /\ errors # << >>
  /\ errorSummary # << >>
  /\ title # PageTitle(<< >>)

C13_Idempotence ==
  [][ /\ (lastOp = NoOp("submit") /\ lastOp' = NoOp("submit")) =>
           UNCHANGED << formVars, errors, ret, calls, feedbackVars, summaryVars >>
      /\ \A f \in AllIds :
           ( /\ lastOp = FieldOp("validateField", f)
             /\ lastOp' = FieldOp("validateField", f)
             /\ UNCHANGED formVars ) =>
               UNCHANGED << feedbackVars, calls, shown, warned, errors, summaryVars >>
    ]_vars

\* The state two submits in a row of the untouched form end in: two user
\* events, the second a submit, the form as loaded, six errors recorded.
C13_Witness ==
  /\ AfterSubmit
  /\ events = 2
  /\ \A f \in InputIds : value[f] = << >>
  /\ checked = {} /\ payment = "credit-card"
  /\ Len(errors) = Len(validators)
  /\ Len(errorSummary) = 1 /\ errorSummary[1].items = errors
  /\ \A f \in FieldIds : Len(hints[f]) = 1

(***************************************************************************)
(* C14  Scenario C.  With "a.b@@c.com" in #email, a pass over the email    *)
(* rules invokes the predicate of the rule "The 'at' symbol should only    *)
(* appear once.", that rule is the first to fail, its message is the only  *)
(* one reported for the field, and the format-regex rule is not invoked.   *)
(***************************************************************************)
C14_AtOnlyOnce ==
  ( /\ value["email"] = << "a", ".", "b", "@", "@", "c", ".", "c", "o", "m" >>
    /\ AfterSubmit \/ AfterValidateField("email") ) =>
      /\ \E n \in 1..Len(calls) :
           calls[n] = Call("method", "email", RuleById("email-at-once"), FALSE)
      /\ \A n \in 1..Len(calls) :
           (calls[n].fieldId = "email" /\ calls[n].rule # "email-at-once") =>
             calls[n].result
      /\ \A n \in 1..Len(calls) : calls[n].rule # "email-pattern"
      /\ AfterSubmit =>
           ErrorsOf("email") =
             << ErrorRecord("email", "The 'at' symbol should only appear once.") >>
      /\ AfterValidateField("email") =>
           /\ shown = << ErrorRecord("email", "The 'at' symbol should only appear once.") >>
           /\ hints["email"] = << "The 'at' symbol should only appear once." >>

(***************************************************************************)
(* C15  Activity slots.  From a page with no activity checked, whatever    *)
(* checkbox change events follow, no two checked activities have the same  *)
(* day-and-time, and no checked activity is disabled.                      *)
(***************************************************************************)
C15_NoSlotConflict ==
  /\ \A a \in checked : \A b \in checked :
       a # b => DayAndTime[a] # DayAndTime[b]
  /\ checked \cap disabled = {}

\* Two activities of different slots are checked, and the activity that
\* shares the slot of one of them has been disabled by the listener.
C15_Witness ==
  /\ lastOp = NoOp("activityChange")
  /\ checked = {"js-libs", "build-tools"}
  /\ DayAndTime["node"] = DayAndTime["js-libs"]
  /\ "node" \in disabled

(***************************************************************************)
(* C16  Page title.  The title is the original title, or '(N errors) '     *)
(* followed by the original title with N the number of errors of the most  *)
(* recent failed submit (this.errors is written by submits only); a second *)
(* failed submit replaces the count, it does not put a second prefix in    *)
(* front.                                                                  *)
(***************************************************************************)
C16_PageTitle ==
  /\ title.base = OriginalPageTitle
  /\ title.prefixes = IF errors = << >> THEN << >> ELSE << Len(errors) >>
  /\ AfterSubmit /\ ~ret => title = PageTitle(<< Len(errors) >>)

\* A second failed submit: #zip carries the 'error' class only a failed
\* submit under 'credit-card' gives it, the payment is now 'paypal', and
\* the submit that followed counted three errors.
C16_Witness ==
  /\ AfterSubmit
  /\ payment = "paypal"
  /\ errorClass["zip"]
  /\ Len(errors) = 3
  /\ title = PageTitle(<< 3 >>)

\* The position of the rule with that id in the rule list registered first
\* for the field.
RuleIndex(fieldId, ruleId) ==
  LET v == validators[FindValidator(validators, fieldId)]
  IN  CHOOSE k \in 1..Len(v.rules) : v.rules[k].id = ruleId

(***************************************************************************)
(* C17  No evaluation after a failure.  In the invocation log of a pass    *)
(* (validateForm or validateField), nothing of a field follows a failed    *)
(* predicate of that field, neither a condition nor a predicate of a later *)
(* rule; and the invocations of one field come in the order of its rule    *)
(* list, the condition of a rule before its predicate.                     *)
(***************************************************************************)
C17_StopAtFirstFailure ==
  \A m \in 1..Len(calls) : \A n \in (m + 1)..Len(calls) :
    calls[m].fieldId = calls[n].fieldId =>
      /\ ~(calls[m].kind = "method" /\ ~calls[m].result)
      /\ \A km \in {RuleIndex(calls[m].fieldId, calls[m].rule)} :
         \A kn \in {RuleIndex(calls[n].fieldId, calls[n].rule)} :
           \/ km < kn
           \/ km = kn /\ calls[m].kind = "condition" /\ calls[n].kind = "method"

\* A full-form pass with "Al" in #name: the second name rule failed, the
\* third, which "Al" would pass, was not invoked, and the pass went on to
\* the conditions and predicates of the other fields.
C17_Witness ==
  /\ AfterSubmit
  /\ value["name"] = << "A", "l" >>
  /\ payment = "credit-card"
  /\ \E n \in 1..Len(calls) :
       calls[n] = Call("method", "name", RuleById("name-min"), FALSE)
  /\ \A n \in 1..Len(calls) : calls[n].rule # "name-pattern"
  /\ \E n \in 1..Len(calls) : calls[n].kind = "condition" /\ calls[n].result

(***************************************************************************)
(* C18  Registry frame.  Within one page load the registry changes only    *)
(* in addValidator steps, each of which puts one entry at the end and      *)
(* leaves the entries before it as they were; validateForm and             *)
(* validateField steps leave the registry, rule lists included, unchanged. *)
(* (A reload constructs a new FormValidator, whose registry is empty.)     *)
(***************************************************************************)
C18_RegistryFrame ==
  [][ /\ lastOp'.op \in {"submit", "validateField"} => validators' = validators
      /\ (validators' # validators /\ lastOp' # NoOp("load")) =>
           /\ lastOp' = NoOp("addValidator")
           /\ Len(validators') = Len(validators) + 1
           /\ SubSeq(validators', 1, Len(validators)) = validators
      /\ lastOp' = NoOp("load") => validators' = << >>
    ]_vars

\* After a validateField pass that followed a failed validateForm pass the
\* registry is the list of the registrations, in the order they were made.
C18_Witness ==
  /\ AfterValidateField("email")
  /\ errors # << >>
  /\ validators =
       [i \in 1..Len(Registrations) |->
          Validator(Registrations[i].fieldId, Registrations[i].rules)]

(***************************************************************************)
(* C19  Registration never fails and never replaces.  Every addValidator   *)
(* call, for an id already registered or an id the form has no control     *)
(* for as for any other, ends without an error having put one entry at the *)
(* end of the registry; and a validateField pass on an id registered more  *)
(* than once invokes and reports rules of the entry registered first for   *)
(* that id, none of a later entry.                                         *)
(***************************************************************************)
C19_Registration ==
  [][ /\ lastOp' = NoOp("addValidator") =>
           /\ ~threw'
           /\ Len(validators') = Len(validators) + 1
           /\ SubSeq(validators', 1, Len(validators)) = validators
      /\ \A f \in GenericIds :
           lastOp' = FieldOp("validateField", f) =>
             \A i \in 1..Len(validators) :
               ( /\ validators[i].fieldId = f
                 /\ \A j \in 1..(i - 1) : validators[j].fieldId # f ) =>
                   /\ \A n \in 1..Len(calls') :
                        \E k \in 1..Len(validators[i].rules) :
                          calls'[n].rule = validators[i].rules[k].id
                   /\ \A n \in 1..Len(shown') :
                        \E k \in 1..Len(validators[i].rules) :
                          shown'[n].message = validators[i].rules[k].message
    ]_vars

\* 'name' was registered twice with different rule lists and 'nickname',
\* for which the form has no control, once; the empty #name fails the rule
\* of both 'name' entries, and validateField('name') has shown the message
\* of the first.
C19_Witness ==
  /\ AfterValidateField("name")
  /\ Len(validators) = 3
  /\ \E i \in 1..3 : validators[i].fieldId = "nickname" /\ validators[i].field = Undefined
  /\ \E i \in 1..3 : \E j \in (i + 1)..3 :
       /\ validators[i].fieldId = "name" /\ validators[j].fieldId = "name"
       /\ validators[i].rules # validators[j].rules
       /\ RuleFails(validators[i], 1) /\ RuleFails(validators[j], 1)
       /\ shown = << ErrorRecord("name", validators[i].rules[1].message) >>
       /\ hints["name"] = << validators[i].rules[1].message >>

\* The registry with the field of every entry looked up again, now.
LiveValidators ==
  [i \in 1..Len(validators) |->
     [validators[i] EXCEPT !.field = GetElementById(validators[i].fieldId)]]

(***************************************************************************)
(* C20  Live field state.  A pass evaluates the predicates against the     *)
(* control that carries the id when the pass runs, also when that control  *)
(* was put into the form, or took the place of another, after addValidator *)
(* was called: what a validateField pass shows, and the errors a           *)
(* validateForm pass records, are what the rules give on the controls      *)
(* bound now, and a pass over ids that all have a control raises nothing.  *)
(***************************************************************************)
C20_LiveField ==
  /\ \A f \in GenericIds :
       ( /\ AfterValidateField(f)
         /\ ~warned
         /\ GetElementById(f) # Undefined ) =>
           /\ ~threw
           /\ shown = ValidateField(LiveValidators, f, FormState, Feedback).shown
  /\ ( /\ lastOp = NoOp("validateForm")
       /\ \A i \in 1..Len(validators) :
            GetElementById(validators[i].fieldId) # Undefined ) =>
         /\ ~threw
         /\ errors = ValidateForm(LiveValidators, FormState, Feedback).errors

\* The pass that has just run found no failing rule for the field.
PassesAllRules(f) ==
  \/ AfterValidateField(f) /\ shown = << >> /\ ~warned /\ ~threw
  \/ AfterSubmit /\ ErrorsOf(f) = << >> /\ ~threw

AllDigits(s) == \A i \in 1..Len(s) : s[i] \in Digits

(***************************************************************************)
(* C21  Payment fields accept digits only.  With payment 'credit-card', a  *)
(* pass finds no failing rule for #zip only if its value is exactly 5      *)
(* decimal digits, for #cvv only if it is exactly 3 decimal digits, and    *)
(* for #cc-num only if it is 13 to 16 decimal digits; a value with a sign, *)
(* a decimal point, an exponent or padding is rejected.                    *)
(***************************************************************************)
C21_DigitsOnly ==
  payment = "credit-card" =>
    /\ PassesAllRules("zip") =>
         Len(value["zip"]) = 5 /\ AllDigits(value["zip"])
    /\ PassesAllRules("cvv") =>
         Len(value["cvv"]) = 3 /\ AllDigits(value["cvv"])
    /\ PassesAllRules("cc-num") =>
         Len(value["cc-num"]) \in 13..16 /\ AllDigits(value["cc-num"])

\* The first validator that a validateForm pass on the page as it is would
\* call a predicate of with undefined as the field; 0 when there is none.
FirstThrowing ==
  LET throwing ==
        {i \in 1..Len(validators) :
           /\ validators[i].field = Undefined
           /\ \E k \in 1..Len(validators[i].rules) : Active(validators[i].rules[k])}
  IN  IF throwing = {} THEN 0
      ELSE CHOOSE i \in throwing : \A j \in throwing : i <= j

(***************************************************************************)
(* C22  Faults propagate.  When a pass calls a predicate that raises (the  *)
(* field of its validator is undefined), the call ends in that fault: no   *)
(* error record, hint or marking is made for the field, validateForm       *)
(* records nothing for the validators after it, and the submit listener    *)
(* ends where it is, with the title and the summary reset, nothing shown   *)
(* and location.reload() not called.                                       *)
(***************************************************************************)
C22_FaultPropagates ==
  [][ /\ (lastOp' = NoOp("submit") /\ FirstThrowing # 0) =>
           /\ threw'
           /\ ~reloading'
           /\ \A n \in 1..Len(errors') :
                \E j \in 1..(FirstThrowing - 1) :
                  errors'[n].fieldId = validators[j].fieldId
           /\ title' = ResetPageTitle
           /\ errorSummary' = << >>
           /\ \A f \in FieldIds : hints'[f] = << >>
      /\ \A f \in FieldIds :
           ( /\ lastOp' = FieldOp("validateField", f)
             /\ FirstThrowing # 0
             /\ validators[FirstThrowing].fieldId = f ) =>
               /\ threw'
               /\ shown' = << >>
               /\ UNCHANGED << feedbackVars, errors, summaryVars, reloading >>
      /\ (lastOp'.op \in {"submit", "validateField"} /\ FirstThrowing = 0) => ~threw'
    ]_vars

\* Every field with a control is valid, payment is 'credit-card', and the
\* submit ended in the TypeError of the first cc-num predicate: nothing is
\* recorded or shown, and the page is not reloaded.
C22_Witness ==
  /\ AfterSubmit
  /\ threw
  /\ payment = "credit-card"
  /\ errors = << >>
  /\ validClass["name"] /\ validClass["email"] /\ validClass["activities"]
  /\ ~validClass["cc-num"] /\ hints["cc-num"] = << >>
  /\ ~reloading

\* The messages of the records of this.errors for one field, in order.
MessagesOf(fieldId) ==
  [n \in 1..Len(ErrorsOf(fieldId)) |-> ErrorsOf(fieldId)[n].message]

C24_ConsistentMarking ==
  \A f \in FieldIds :
    /\ ~(validClass[f] /\ notValidClass[f])
    /\ hints[f] # << >> => notValidClass[f] /\ ~validClass[f]

\* "Al" in #name: the pass marked the field valid after the first rule and
\* then, the second rule failing, showed a hint; #email is valid, without
\* hint.
C24_Witness ==
  /\ AfterValidateField("name")
  /\ Len(calls) = 2 /\ calls[1].result /\ ~calls[2].result
  /\ hints["name"] # << >> /\ notValidClass["name"] /\ ~validClass["name"]
  /\ validClass["email"] /\ ~notValidClass["email"] /\ hints["email"] = << >>

\* The sum of the costs of a set of activities.
RECURSIVE SumCost(_)
SumCost(as) ==
  IF as = {} THEN 0
  ELSE LET a == CHOOSE x \in as : TRUE
       IN  Cost[a] + SumCost(as \ {a})

(***************************************************************************)
(* C25  Total cost.  From a page with no activity checked and a total of   *)
(* 0, whatever checkbox change events follow, the total shown in           *)
(* #activities-cost is the sum of the costs of the checked activities, and *)
(* it is never negative.                                                   *)
(***************************************************************************)
C25_TotalCost ==
  /\ costText = SumCost(checked)
  /\ totalCost = costText
  /\ costText >= 0

\* After three events, the last a checkbox change, only 'build-tools' is
\* checked and the total shows its cost; checking 'js-libs' and
\* 'build-tools' and unchecking 'js-libs' ends here.
C25_Witness ==
  /\ lastOp = NoOp("activityChange")
  /\ events = 3
  /\ checked = {"build-tools"}
  /\ disabled = {}
  /\ costText = Cost["build-tools"]
  /\ \A f \in InputIds : value[f] = << >>
  /\ errors = << >> /\ \A f \in FieldIds : hints[f] = << >> /\ ~errorClass[f]

(***************************************************************************)
(* C26  Disabled exactly on conflict.  Whatever checkbox change events     *)
(* came before, an activity is disabled if and only if another activity    *)
(* with the same day-and-time is checked: checking disables the conflicts, *)
(* unchecking enables them again, and none stays disabled once its slot is *)
(* free.                                                                   *)
(***************************************************************************)
C26_DisabledIffConflict ==
  \A a \in Activities :
    a \in disabled <=>
      \E b \in checked : b # a /\ DayAndTime[b] = DayAndTime[a]

\* After three events, the last a checkbox change, 'node' is checked and
\* 'js-libs', of the same slot, disabled; checking 'js-libs' (which
\* disables 'node'), unchecking it and checking 'node' ends here.
C26_Witness ==
  /\ lastOp = NoOp("activityChange")
  /\ events = 3
  /\ checked = {"node"}
  /\ disabled = {"js-libs"}
  /\ DayAndTime["js-libs"] = DayAndTime["node"]
  /\ \A f \in InputIds : value[f] = << >>
  /\ errors = << >> /\ \A f \in FieldIds : hints[f] = << >> /\ ~errorClass[f]

\* The detail section of payment type p is shown: the script has not set
\* its style.display to 'none'.
Displayed(p) == display[p] # "none"

(***************************************************************************)
(* C27  One payment section.  After setup and after any payment-type       *)
(* change events, exactly one of the credit-card, paypal and bitcoin       *)
(* sections is displayed, the one of the selected payment type; so the     *)
(* rules of cc-num, zip and cvv are active exactly when the credit-card    *)
(* section is the displayed one, and a submit pass records an error for    *)
(* one of these fields only then.                                          *)
(***************************************************************************)
C27_OnePaymentSection ==
  /\ \A p \in PaymentTypes : Displayed(p) <=> p = payment
  /\ Cardinality({p \in PaymentTypes : Displayed(p)}) = 1
  /\ \A i \in 1..Len(validators) :
       validators[i].fieldId \in PaymentFieldIds =>
         \A k \in 1..Len(validators[i].rules) :
           Active(validators[i].rules[k]) <=> Displayed("credit-card")
  /\ (AfterSubmit /\ ~Displayed("credit-card")) =>
       \A n \in 1..Len(errors) : errors[n].fieldId \notin PaymentFieldIds

\* After two payment-type changes, away from credit card and back, the
\* credit-card section alone is displayed, set to 'block' by the listener.
C27_Witness ==
  /\ lastOp = NoOp("paymentChange")
  /\ events = 2
  /\ payment = "credit-card"
  /\ display["credit-card"] = "block"
  /\ display["paypal"] = "none" /\ display["bitcoin"] = "none"
  /\ Len(validators) = Len(Registrations)
  /\ Active(RuleById("zip-required"))

====
